---- MODULE Spec2Model ----
(***************************************************************************)
(* A model of mdbook-linkcheck (src/src/lib.rs): the link checker that an  *)
(* mdbook backend runs over a book.                                         *)
(*                                                                         *)
(*   - Link::line_number, the byte-offset to line-number mapping;          *)
(*   - collect_links, the extraction of links from a chapter's events;     *)
(*   - check_link / validate_external_link / check_link_in_book;           *)
(*   - check_links, the run: load the config, collect the links of every   *)
(*     chapter, check every link, build the result.                        *)
(*                                                                         *)
(* Text is a sequence of one-character strings; for line_number the        *)
(* elements are bytes of a UTF-8 encoded String.  The book is the sequence *)
(* of BookItems in the order Book::iter() yields them.  Logging (info!,   *)
(* debug!, trace!) writes no state of the run and is left out.             *)
(***************************************************************************)
EXTENDS Integers, Sequences, FiniteSets

VARIABLES
    book,      \* ctx.book, as the sequence of items Book::iter() yields
    cfgInput,  \* what the `output.linkcheck` table deserializes to
    cfg,       \* check_links' local `cfg`
    pc,        \* position of check_links
    item,      \* index of the next book item of the loop at line 55
    links,     \* check_links' local `links`
    next,      \* index of the next link of the loop at line 66
    errors,    \* check_links' local `errors`
    outcome,   \* history: the value check_link returned for each link
    fetches,   \* history: the calls of reqwest::get, with their results
    result,    \* what check_links returned
    content,   \* line_number: chapter.content (bytes)
    offset,    \* line_number: self.offset
    line       \* line_number: the value returned, or the panic

vars == << book, cfgInput, cfg, pc, item, links, next, errors, outcome,
           fetches, result, content, offset, line >>

runVars == << book, cfgInput, cfg, pc, item, links, next, errors, outcome,
              fetches, result >>

lineVars == << content, offset, line >>

(***************************************************************************)
(* Bounds.                                                                 *)
(***************************************************************************)
MaxItems == 2     \* items of a book
MaxFrags == 5     \* fragments a chapter's content is built from
MaxBytes == 4     \* bytes of a content buffer handed to line_number

(***************************************************************************)
(* Sequences.                                                              *)
(***************************************************************************)
SeqsUpTo(S, n) == UNION { [1..k -> S] : k \in 0..n }

RECURSIVE Flatten(_)
Flatten(ss) == IF ss = << >> THEN << >> ELSE Head(ss) \o Flatten(Tail(ss))

NL == "\n"

(***************************************************************************)
(* Link::line_number (lines 98-111).                                       *)
(*                                                                         *)
(* A String is valid UTF-8.  LeadByte/ContByte are the two bytes of a      *)
(* two-byte character; the other bytes are ASCII.                          *)
(***************************************************************************)
LeadByte == "C3"
ContByte == "A9"
Bytes == { "a", NL, LeadByte, ContByte }

IsUtf8(s) ==
    /\ \A i \in 1..Len(s) : s[i] = LeadByte => (i < Len(s) /\ s[i+1] = ContByte)
    /\ \A i \in 1..Len(s) : s[i] = ContByte => (i > 1 /\ s[i-1] = LeadByte)

\* str::is_char_boundary, which the slice content[..offset] (line 109) checks
is_char_boundary(s, i) ==
    \/ i = 0
    \/ i = Len(s)
    \/ (i < Len(s) /\ s[i+1] # ContByte)

\* Memchr::new(b'\n', bytes).count() over the first n bytes
RECURSIVE MemchrCount(_, _)
MemchrCount(s, n) ==
    IF n = 0 THEN 0
    ELSE MemchrCount(s, n - 1) + (IF s[n] = NL THEN 1 ELSE 0)

Panicked(why) == [tag |-> "Panic", value |-> 0, why |-> why]
NotCalled == [tag |-> "None", value |-> 0, why |-> ""]

line_number(c, off) ==
    IF off > Len(c)
    THEN Panicked("Link has invalid offset")
    ELSE IF ~ is_char_boundary(c, off)
         THEN Panicked("byte index is not a char boundary")
         ELSE [tag |-> "Ok", value |-> MemchrCount(c, off) + 1, why |-> ""]

(***************************************************************************)
(* pulldown_cmark::Parser as collect_links drives it (lines 128-130): the  *)
(* events parser.next() yields, each with the value parser.get_offset()    *)
(* has once the event is out.  Inline links [text](dest) and images        *)
(* ![alt](dest) are tokenized; everything else is text.  After the start   *)
(* of a link the offset is just behind the "[" (test, lines 215-229), and  *)
(* behind the "![" for an image.  A link inside the text of a link is      *)
(* tokenized as a link too; reference-style links and autolinks are not    *)
(* tokenized.                                                              *)
(***************************************************************************)
Event(kind, dest, off) == [kind |-> kind, dest |-> dest, off |-> off]

\* position of the "]" that closes the bracket opened before position i
RECURSIVE MatchClose(_, _, _)
MatchClose(s, i, depth) ==
    IF i > Len(s) THEN 0
    ELSE IF s[i] = "[" THEN MatchClose(s, i + 1, depth + 1)
    ELSE IF s[i] = "]"
         THEN IF depth = 0 THEN i ELSE MatchClose(s, i + 1, depth - 1)
    ELSE MatchClose(s, i + 1, depth)

\* position of the ")" that ends the destination starting at position j
RECURSIVE DestEnd(_, _)
DestEnd(s, j) ==
    IF j > Len(s) THEN 0
    ELSE IF s[j] = ")" THEN j
    ELSE IF s[j] \in { "(", " ", NL } THEN 0
    ELSE DestEnd(s, j + 1)

NoLink == [ok |-> FALSE, close |-> 0, end |-> 0]

\* the inline link whose "[" is at position i, if it ends at or before hi
LinkAt(s, i, hi) ==
    IF i > hi \/ s[i] # "[" THEN NoLink
    ELSE LET c == MatchClose(s, i + 1, 0) IN
         IF c = 0 \/ c + 1 > hi \/ s[c + 1] # "(" THEN NoLink
         ELSE LET p == DestEnd(s, c + 2) IN
              IF p = 0 \/ p > hi THEN NoLink
              ELSE [ok |-> TRUE, close |-> c, end |-> p]

RECURSIVE Tok(_, _, _)
Tok(s, i, hi) ==
    IF i > hi THEN << >>
    ELSE LET l == LinkAt(s, i, hi)
             m == IF s[i] = "!" THEN LinkAt(s, i + 1, hi) ELSE NoLink
         IN  IF l.ok
             THEN << Event("StartLink", SubSeq(s, l.close + 2, l.end - 1), i) >>
                  \o Tok(s, i + 1, l.close - 1)
                  \o << Event("EndLink", << >>, l.end) >>
                  \o Tok(s, l.end + 1, hi)
             ELSE IF m.ok
             THEN << Event("StartImage", SubSeq(s, m.close + 2, m.end - 1), i + 1) >>
                  \o Tok(s, i + 2, m.close - 1)
                  \o << Event("EndImage", << >>, m.end) >>
                  \o Tok(s, m.end + 1, hi)
             ELSE << Event(IF s[i] = NL THEN "SoftBreak" ELSE "Text", << >>, i) >>
                  \o Tok(s, i + 1, hi)

Events(s) ==
    IF s = << >> THEN << >>
    ELSE << Event("StartParagraph", << >>, 0) >>
         \o Tok(s, 1, Len(s))
         \o << Event("EndParagraph", << >>, Len(s)) >>

(***************************************************************************)
(* collect_links (lines 126-147).  `ref` is the reference to the chapter:  *)
(* the index of the chapter in the book.                                   *)
(***************************************************************************)
Link(url, off, ref) == [url |-> url, offset |-> off, chapter |-> ref]

RECURSIVE CollectFrom(_, _, _)
CollectFrom(evs, ref, acc) ==
    IF evs = << >> THEN acc
    ELSE LET e == Head(evs) IN
         CollectFrom(Tail(evs), ref,
                     IF e.kind \in { "StartLink", "StartImage" }
                     THEN Append(acc, Link(e.dest, e.off, ref))
                     ELSE acc)

\* a collect_links that matches Event::Start(Tag::Link) only
RECURSIVE CollectLinksOnly(_, _, _)
CollectLinksOnly(evs, ref, acc) ==
    IF evs = << >> THEN acc
    ELSE LET e == Head(evs) IN
         CollectLinksOnly(Tail(evs), ref,
                          IF e.kind = "StartLink"
                          THEN Append(acc, Link(e.dest, e.off, ref))
                          ELSE acc)

collect_links_no_images(ch, ref) == CollectLinksOnly(Events(ch.content), ref, << >>)

collect_links(ch, ref) == CollectFrom(Events(ch.content), ref, << >>)


(***************************************************************************)
(* Url::parse as check_link uses it (line 152): does the destination parse *)
(* as an absolute URL?  It does when it starts with a scheme and a colon;  *)
(* a special scheme (http, https) also needs a host.                       *)
(***************************************************************************)
Alpha == { "a", "c", "d", "e", "f", "g", "h", "i", "l", "m", "n", "o", "p",
           "r", "s", "t", "x", "G", "R" }
SchemeChars == Alpha \cup { "+", "-", "." }

SpecialSchemes == { << "h", "t", "t", "p" >>, << "h", "t", "t", "p", "s" >> }

RECURSIVE SkipSlashes(_, _)
SkipSlashes(s, i) ==
    IF i <= Len(s) /\ s[i] = "/" THEN SkipSlashes(s, i + 1) ELSE i

UrlParseOk(s) ==
    \E k \in 2..Len(s) :
        /\ s[k] = ":"
        /\ s[1] \in Alpha
        /\ \A m \in 1..(k - 1) : s[m] \in SchemeChars
        /\ SubSeq(s, 1, k - 1) \in SpecialSchemes => SkipSlashes(s, k + 1) <= Len(s)

(***************************************************************************)
(* reqwest::get (line 162): a response with a status, or an error.         *)
(***************************************************************************)
Statuses == { 200, 204, 301, 404 }

Response(st) == [tag |-> "Response", status |-> st]
NetErr == [tag |-> "NetErr", status |-> 0]
FetchResults == { Response(st) : st \in Statuses } \cup { NetErr }

\* StatusCode::is_success (line 165)
is_success_only_200(st) == st = 200

is_success(st) == 200 <= st /\ st < 300

(***************************************************************************)
(* What check_link returns (Result<(), Error>), or the panic that ends it. *)
(***************************************************************************)
OkRet == [kind |-> "Ok", status |-> 0]
UnsuccessfulStatus(st) == [kind |-> "UnsuccessfulStatus", status |-> st]
NetworkError == [kind |-> "Network", status |-> 0]
PanicRet == [kind |-> "Panic", status |-> 0]

IsErr(r) == r.kind \in { "UnsuccessfulStatus", "Network" }

\* validate_external_link (lines 158-175); r is what reqwest::get gives if
\* it is called, `fetched` tells whether it was called
validate_external_link_always_fetches(url, c, r) ==
    [ fetched |-> TRUE,
      ret |-> IF r.tag = "NetErr" THEN NetworkError
              ELSE IF is_success(r.status) THEN OkRet
              ELSE UnsuccessfulStatus(r.status) ]

validate_external_link(url, c, r) ==
    IF c.follow_web_links
    THEN [ fetched |-> TRUE,
           ret |-> IF r.tag = "NetErr" THEN NetworkError
                   ELSE IF is_success(r.status) THEN OkRet
                   ELSE UnsuccessfulStatus(r.status) ]
    ELSE [ fetched |-> FALSE, ret |-> OkRet ]

\* check_link_in_book (lines 181-183): unimplemented!()
check_link_in_book(link, b) == [ fetched |-> FALSE, ret |-> PanicRet ]

\* check_link (lines 149-156)
check_link(link, b, c, r) ==
    IF UrlParseOk(link.url)
    THEN validate_external_link(link.url, c, r)
    ELSE check_link_in_book(link, b)

(***************************************************************************)
(* The Display of a Link (lines 113-123) and of the errors (lines 177-179  *)
(* and reqwest's error), as the parts written.                             *)
(***************************************************************************)
DisplayLink(link, b) ==
    << link.url, b[link.chapter].path,
       line_number(b[link.chapter].content, link.offset) >>

\* what an error writes: nothing of the link, and the status or the
\* description of the network error
DisplayError(e) == [link |-> << >>, reason |-> e]

(***************************************************************************)
(* check_links (lines 38-78).                                              *)
(***************************************************************************)
Separator == [type |-> "Separator", content |-> << >>]
Chapter(c) == [type |-> "Chapter", content |-> c]

\* the path of the item at position i of the book
PathAt(i) == [k \in 1..i |-> "a"]

MkBook(ks) ==
    [i \in 1..Len(ks) |->
        [type |-> ks[i].type, content |-> ks[i].content, path |-> PathAt(i)]]

Contents ==
    { << >>,
      << "a", NL >>,
      << "[", "a", "]", "(", "a", ":", ")" >>,
      << "[", "a", "]", "(", "a", ")" >>,
      << "[", "a", "]", "(", "a", "a", ")" >>,
      << "[", "a", "]", "(", "a", ":", ")", NL,
         "!", "[", "a", "]", "(", "a", "a", ":", ")" >> }

ItemChoices == { Separator } \cup { Chapter(c) : c \in Contents }

Books == { MkBook(ks) : ks \in SeqsUpTo(ItemChoices, MaxItems) }

InvalidConfig == [valid |-> FALSE, follow_web_links |-> FALSE]
ValidConfig(f) == [valid |-> TRUE, follow_web_links |-> f]
ConfigInputs == { InvalidConfig } \cup { ValidConfig(f) : f \in BOOLEAN }

NoConfig == [loaded |-> FALSE, follow_web_links |-> FALSE]

NoResult == [tag |-> "None", errors |-> << >>]
OkResult == [tag |-> "Ok", errors |-> << >>]
ConfigError == [tag |-> "ConfigError", errors |-> << >>]
BrokenLinks(es) == [tag |-> "BrokenLinks", errors |-> es]

IdleLine ==
    /\ content = << >>
    /\ offset = 0
    /\ line = NotCalled

Init ==
    /\ book \in Books
    /\ cfgInput \in ConfigInputs
    /\ cfg = NoConfig
    /\ pc = "start"
    /\ item = 1
    /\ links = << >>
    /\ next = 1
    /\ errors = << >>
    /\ outcome = << >>
    /\ fetches = << >>
    /\ result = NoResult
    /\ IdleLine

\* where check_links is once item i and link j are the next ones to handle
PcAt(i, j, ls) ==
    IF i <= Len(book) THEN "collect"
    ELSE IF j <= Len(ls) THEN "check"
    ELSE "finish"

\* lines 41-44: deserialize the config, return the error if that fails
LoadConfig ==
    /\ pc = "start"
    /\ IF cfgInput.valid
       THEN /\ cfg' = [loaded |-> TRUE,
                       follow_web_links |-> cfgInput.follow_web_links]
            /\ pc' = PcAt(item, next, links)
            /\ result' = result
       ELSE /\ cfg' = cfg
            /\ pc' = "done"
            /\ result' = ConfigError
    /\ UNCHANGED << book, cfgInput, item, links, next, errors, outcome,
                    fetches >>
    /\ UNCHANGED lineVars

\* lines 55-60: one iteration of the loop over the book's items
CollectItem ==
    /\ pc = "collect"
    /\ item <= Len(book)
    /\ links' = links \o (IF book[item].type = "Chapter"
                          THEN collect_links(book[item], item)
                          ELSE << >>)
    /\ item' = item + 1
    /\ pc' = PcAt(item + 1, next, links')
    /\ UNCHANGED << book, cfgInput, cfg, next, errors, outcome, fetches,
                    result >>
    /\ UNCHANGED lineVars

\* errors.push(e) (line 68)
push_front(es, e) == << e >> \o es

push(es, e) == Append(es, e)

\* lines 66-70: one iteration of the loop over the links
CheckLink ==
    /\ pc = "check"
    /\ next <= Len(links)
    /\ \E r \in FetchResults :
        LET c == check_link(links[next], book, cfg, r) IN
        /\ fetches' = IF c.fetched
                      THEN Append(fetches, [url |-> links[next].url, response |-> r])
                      ELSE fetches
        /\ outcome' = Append(outcome, c.ret)
        /\ IF c.ret.kind = "Panic"
           THEN /\ pc' = "panicked"
                /\ UNCHANGED << next, errors >>
           ELSE /\ errors' = IF IsErr(c.ret) THEN push(errors, c.ret) ELSE errors
                /\ next' = next + 1
                /\ pc' = PcAt(item, next + 1, links)
    /\ UNCHANGED << book, cfgInput, cfg, item, links, result >>
    /\ UNCHANGED lineVars

\* lines 73-77
check_links_result_needs_two(es) ==
    IF Len(es) <= 1 THEN OkResult ELSE BrokenLinks(es)

check_links_result(es) ==
    IF es = << >> THEN OkResult ELSE BrokenLinks(es)

Finish ==
    /\ pc = "finish"
    /\ result' = check_links_result(errors)
    /\ pc' = "done"
    /\ UNCHANGED << book, cfgInput, cfg, item, links, next, errors, outcome,
                    fetches >>
    /\ UNCHANGED lineVars

Next == LoadConfig \/ CollectItem \/ CheckLink \/ Finish

Spec == Init /\ [][Next]_vars

(***************************************************************************)
(* collect_links on its own, over every content built from MaxFrags        *)
(* fragments: check_links stopped once the links are collected.            *)
(***************************************************************************)
Fragments ==
    { << "[" >>, << "!", "[" >>, << "]", "(" >>, << ")" >>,
      << "]", "(", ")" >>, << "a" >>, << NL >> }

FragContents == { Flatten(fs) : fs \in SeqsUpTo(Fragments, MaxFrags) }

InitCollect ==
    /\ book \in { MkBook(<< Chapter(c) >>) : c \in FragContents }
    /\ cfgInput = ValidConfig(FALSE)
    /\ cfg = [loaded |-> TRUE, follow_web_links |-> FALSE]
    /\ pc = "collect"
    /\ item = 1
    /\ links = << >>
    /\ next = 1
    /\ errors = << >>
    /\ outcome = << >>
    /\ fetches = << >>
    /\ result = NoResult
    /\ IdleLine

NextCollect == CollectItem

SpecCollect == InitCollect /\ [][NextCollect]_vars

(***************************************************************************)
(* Link::line_number on its own, over every UTF-8 buffer of at most        *)
(* MaxBytes bytes and every offset up to one past its length.              *)
(***************************************************************************)
Buffers == { s \in SeqsUpTo(Bytes, MaxBytes) : IsUtf8(s) }

InitLine ==
    /\ content \in Buffers
    /\ offset \in 0..(MaxBytes + 1)
    /\ line = NotCalled
    /\ book = << >>
    /\ cfgInput = InvalidConfig
    /\ cfg = NoConfig
    /\ pc = "idle"
    /\ item = 1
    /\ links = << >>
    /\ next = 1
    /\ errors = << >>
    /\ outcome = << >>
    /\ fetches = << >>
    /\ result = NoResult

LineNumber ==
    /\ line = NotCalled
    /\ line' = line_number(content, offset)
    /\ UNCHANGED << content, offset >>
    /\ UNCHANGED runVars

NextLine == LineNumber

SpecLine == InitLine /\ [][NextLine]_vars

(***************************************************************************)
(* Definitions the properties share.                                       *)
(***************************************************************************)
Terminated == pc \in { "done", "panicked" }

IsExternal(link) == UrlParseOk(link.url)

\* the indices of the external links among the first n links, in order
RECURSIVE ExternalIdx(_, _)
ExternalIdx(ls, n) ==
    IF n = 0 THEN << >>
    ELSE ExternalIdx(ls, n - 1) \o (IF IsExternal(ls[n]) THEN << n >> ELSE << >>)

\* the indices of the links checked so far whose check returned an error
RECURSIVE FailedIdx(_, _)
FailedIdx(os, n) ==
    IF n = 0 THEN << >>
    ELSE FailedIdx(os, n - 1) \o (IF IsErr(os[n]) THEN << n >> ELSE << >>)

\* the book has a chapter at the path an internal reference names
TargetExists(link) ==
    \E i \in 1..Len(book) : book[i].type = "Chapter" /\ book[i].path = link.url

\* link j fails validation: its fetch failed, or it names no chapter
Fails(j) ==
    \/ j <= Len(outcome) /\ IsErr(outcome[j])
    \/ ~ IsExternal(links[j]) /\ ~ TargetExists(links[j])

IsLinkStart(e) == e.kind \in { "StartLink", "StartImage" }

\* the content of the test find_links_in_chapter (line 215)
TestSrc ==
    << "[", "R", "e", "f", "e", "r", "e", "n", "c", "e", " ", "o", "t", "h",
       "e", "r", " ", "c", "h", "a", "p", "t", "e", "r", "]", "(", "i", "n",
       "d", "e", "x", ".", "h", "t", "m", "l", ")", " ", "a", "n", "d", " ",
       "[", "G", "o", "o", "g", "l", "e", "]", "(", "h", "t", "t", "p", "s",
       ":", "/", "/", "g", "o", "o", "g", "l", "e", ".", "c", "o", "m", ")" >>

\* the test find_links_in_chapter (lines 213-234)
find_links_in_chapter ==
    collect_links(Chapter(TestSrc), 1) =
        << Link(SubSeq(TestSrc, 27, 36), 1, 1),
           Link(SubSeq(TestSrc, 52, 69), 43, 1) >>

(***************************************************************************)
(* C1: aggregation never short-circuits: a run over N links of which K     *)
(* fail validation completes, and its composite result has exactly K       *)
(* entries.                                                                *)
(***************************************************************************)
C1_NoShortCircuit ==
    (Terminated /\ cfgInput.valid) =>
        /\ pc = "done"
        /\ Len(result.errors) = Cardinality({ j \in 1..Len(links) : Fails(j) })

(***************************************************************************)
(* C2: an internal reference whose target chapter does not exist gives a   *)
(* recoverable NotFound failure: the run does not abort, the failure is an *)
(* entry of the composite result, the later links are still checked.       *)
(***************************************************************************)
C2_NotFoundIsRecoverable ==
    \A j \in 1..Len(outcome) :
        (~ IsExternal(links[j]) /\ ~ TargetExists(links[j])) =>
            /\ outcome[j].kind = "NotFound"
            /\ pc # "panicked"
            /\ \E k \in 1..Len(errors) : errors[k] = outcome[j]
            /\ Terminated => Len(outcome) = Len(links)

(***************************************************************************)
(* C3: with follow_web_links false no fetch is issued and every external   *)
(* link validates; a run over a book with only external links issues no    *)
(* fetch and returns Ok.                                                   *)
(***************************************************************************)
C3_NoFetchWhenNotFollowing ==
    (cfg.loaded /\ ~ cfg.follow_web_links) =>
        /\ fetches = << >>
        /\ \A j \in 1..Len(outcome) :
               IsExternal(links[j]) => outcome[j] = OkRet
        /\ (pc = "done" /\ \A j \in 1..Len(links) : IsExternal(links[j]))
               => result = OkResult

C3_Witness ==
    /\ pc = "done"
    /\ cfg.loaded /\ ~ cfg.follow_web_links
    /\ Len(links) >= 2
    /\ \A j \in 1..Len(links) : IsExternal(links[j])
    /\ Len(outcome) = Len(links)
    /\ result = OkResult

(***************************************************************************)
(* C4: with follow_web_links true the fetch result alone decides: a 2xx    *)
(* status gives Ok, any other status a failure carrying that status, a     *)
(* network error a failure of another kind, never success.                 *)
(***************************************************************************)
C4_FetchResultDecides ==
    cfg.follow_web_links =>
        \A k \in 1..Len(fetches) :
            LET ext == ExternalIdx(links, Len(links))
                r == fetches[k].response
            IN  /\ k <= Len(ext)
                /\ ext[k] <= Len(outcome)
                /\ fetches[k].url = links[ext[k]].url
                /\ (r.tag = "Response" /\ r.status \in 200..299)
                       => outcome[ext[k]] = OkRet
                /\ (r.tag = "Response" /\ r.status \notin 200..299)
                       => outcome[ext[k]] = [kind |-> "UnsuccessfulStatus",
                                             status |-> r.status]
                /\ r.tag = "NetErr"
                       => /\ outcome[ext[k]].kind = "Network"
                          /\ outcome[ext[k]] # OkRet
                          /\ \A st \in Statuses :
                                 outcome[ext[k]] # UnsuccessfulStatus(st)

C4_Witness ==
    /\ pc = "done"
    /\ cfg.follow_web_links
    /\ \E a, b, c \in 1..Len(fetches) :
        /\ fetches[a].response = Response(404)
        /\ fetches[b].response = NetErr
        /\ fetches[c].response = Response(204)
    /\ \E j \in 1..Len(outcome) : outcome[j] = UnsuccessfulStatus(404)
    /\ \E j \in 1..Len(outcome) : outcome[j] = NetworkError

(***************************************************************************)
(* C5, as claimed: check_links returns BrokenLinks if the failure sequence *)
(* is non-empty at the end and Ok otherwise; an error result is produced   *)
(* only when a link failed, and every error result is a BrokenLinks.       *)
(***************************************************************************)
C5_EveryErrorIsBrokenLinks ==
    pc = "done" =>
        /\ result = IF errors = << >> THEN OkResult ELSE BrokenLinks(errors)
        /\ result.tag # "Ok" =>
               /\ result.tag = "BrokenLinks"
               /\ \E j \in 1..Len(outcome) : IsErr(outcome[j])

(***************************************************************************)
(* C5, amended: when the config deserializes, check_links returns          *)
(* BrokenLinks with the accumulated failures if there are any and Ok       *)
(* otherwise, and a BrokenLinks is returned only when a link failed; when  *)
(* the config does not deserialize it returns that error, which is no      *)
(* BrokenLinks, before any link is collected or checked.                   *)
(***************************************************************************)
C5_ResultOfRun ==
    pc = "done" =>
        /\ cfgInput.valid =>
               /\ errors # << >> => result = [tag |-> "BrokenLinks", errors |-> errors]
               /\ errors = << >> => result = OkResult
               /\ result.tag = "BrokenLinks" =>
                      \E j \in 1..Len(outcome) : IsErr(outcome[j])
        /\ ~ cfgInput.valid =>
               /\ result = ConfigError
               /\ links = << >> /\ outcome = << >> /\ fetches = << >>

C5_Witness ==
    /\ pc = "done"
    /\ result.tag = "BrokenLinks"
    /\ Len(result.errors) = 1
    /\ Len(outcome) >= 2

(***************************************************************************)
(* C6: the entries of the composite failure are in discovery order: by     *)
(* chapter in the order of the book's iteration, then by extraction order  *)
(* within the chapter.                                                     *)
(***************************************************************************)
C6_EntriesInDiscoveryOrder ==
    /\ \A j, k \in 1..Len(links) :
           j < k => \/ links[j].chapter < links[k].chapter
                    \/ /\ links[j].chapter = links[k].chapter
                       /\ links[j].offset < links[k].offset
    /\ LET f == FailedIdx(outcome, Len(outcome)) IN
           /\ Len(errors) = Len(f)
           /\ \A k \in 1..Len(f) : errors[k] = outcome[f[k]]
    /\ (pc = "done" /\ result.tag = "BrokenLinks") => result.errors = errors

C6_Witness ==
    /\ pc = "done"
    /\ result.tag = "BrokenLinks"
    /\ Len(result.errors) = 3
    /\ result.errors[1] # result.errors[2]
    /\ result.errors[2] # result.errors[3]
    /\ \E j, k \in 1..Len(links) :
           j < k /\ links[j].chapter = links[k].chapter
    /\ \E j, k \in 1..Len(links) :
           j < k /\ links[j].chapter < links[k].chapter

(***************************************************************************)
(* C7: with follow_web_links true a run issues exactly one fetch for each  *)
(* external link occurrence, in order: no retry, no deduplication, and no  *)
(* fetch for an internal reference.                                        *)
(***************************************************************************)
C7_OneFetchPerExternalLink ==
    (Terminated /\ cfg.loaded /\ cfg.follow_web_links) =>
        LET ext == ExternalIdx(links, Len(links)) IN
            /\ Len(fetches) = Len(ext)
            /\ \A k \in 1..Len(ext) : fetches[k].url = links[ext[k]].url

(***************************************************************************)
(* C8: every failure entry carries the context of its link (url, chapter   *)
(* path, line number) with the reason, and renders as                      *)
(* "<url>" in <chapter-path>#<line-number>: <reason>.                      *)
(***************************************************************************)
C8_EntriesCarryLinkContext ==
    LET f == FailedIdx(outcome, Len(outcome)) IN
        \A k \in 1..Len(errors) :
            k <= Len(f) =>
                DisplayError(errors[k]) =
                    [link |-> DisplayLink(links[f[k]], book),
                     reason |-> outcome[f[k]]]

(***************************************************************************)
(* C9: for every offset up to the byte length of the content line_number   *)
(* returns 1 plus the number of newline bytes before the offset; for a     *)
(* larger offset it panics.                                                *)
(***************************************************************************)
C9_LineNumberCountsNewlines ==
    line.tag # "None" =>
        IF offset <= Len(content)
        THEN /\ line.tag = "Ok"
             /\ line.value =
                    1 + Cardinality({ i \in 1..offset : content[i] = NL })
        ELSE line.tag = "Panic"

(***************************************************************************)
(* C10: collect_links returns one Link per link-start or image-start event *)
(* of the chapter's token stream, in document order with strictly          *)
(* increasing offsets, each with the event's destination, the parser's     *)
(* offset at the event and a reference to the chapter; content without     *)
(* links, empty content included, gives the empty sequence.                *)
(***************************************************************************)
C10_OneLinkPerStartEvent ==
    /\ find_links_in_chapter
    /\ \A i \in 1..(item - 1) :
           book[i].type = "Chapter" =>
               LET starts == SelectSeq(Events(book[i].content), IsLinkStart)
                   mine == { j \in 1..Len(links) : links[j].chapter = i }
               IN  /\ Cardinality(mine) = Len(starts)
                   /\ \A j \in mine : \A k \in mine :
                          j < k => links[j].offset < links[k].offset
                   /\ \A j \in mine :
                          LET n == Cardinality({ k \in mine : k <= j }) IN
                              /\ links[j].url = starts[n].dest
                              /\ links[j].offset = starts[n].off
                              /\ links[j].offset <= Len(book[i].content)
                   /\ book[i].content = << >> => mine = { }

C10_Witness ==
    /\ item = 2
    /\ Len(links) = 2
    /\ links[1].offset < links[2].offset
    /\ \E e \in { Events(book[1].content)[n] : n \in 1..Len(Events(book[1].content)) } :
           e.kind = "StartImage"
    /\ \E e \in { Events(book[1].content)[n] : n \in 1..Len(Events(book[1].content)) } :
           e.kind = "StartLink"
    /\ \E e \in { Events(book[1].content)[n] : n \in 1..Len(Events(book[1].content)) } :
           e.kind = "Text"

====
